---- MODULE Spec2Model ----
(***************************************************************************)
(* A model of bot.v3.py: the news bot that polls a listing page, renders   *)
(* every unseen article as a card and publishes it, keeping the set of     *)
(* published links in posted_links and in the dedup file.                  *)
(*                                                                         *)
(* Spec          main(): load_posted_links, the poll loop and              *)
(*               process_and_send_news.                                    *)
(* SpecResolver  fetch_article_image on one article page.                  *)
(***************************************************************************)
EXTENDS Integers, Sequences, FiniteSets, TLC

VARIABLES
    pc,             \* where main() / process_and_send_news() stands
    posted_links,   \* the global set posted_links
    dedupFile,      \* the content of POSTED_LINKS_FILE
    news_articles,  \* the list get_latest_news returned for this cycle
    idx,            \* position of the for loop over news_articles
    image_data,     \* what create_professional_news_card returned
    success,        \* what send_telegram_photo_sync returned
    loaded,         \* history: the set load_posted_links built at startup
    sentOk,         \* history: links whose sendPhoto returned True in this run
    failedSend,     \* history: links whose last sendPhoto returned False
    failedCard,     \* history: links whose last card came back None
    calls,          \* history: compose/send calls made in the current cycle
    rpc,            \* where fetch_article_image stands
    page,           \* the parsed article page (soup)
    metaIdx,        \* position in meta_props
    scriptIdx,      \* number of JSON-LD scripts read so far
    ld_candidates,  \* the candidates of the JSON-LD script being read
    objIdx,         \* position in ld_candidates
    img_candidates, \* the sorted inline candidates
    candIdx,        \* position in img_candidates[:8]
    inner,          \* the followed page (inner_soup)
    lastDownload,   \* history: the last download: stage, url, response, verdict
    fetched,        \* history: the pages driver.get was called on
    raisedIn,       \* history: the stage whose exception ended the resolver
    result,         \* what fetch_article_image returned
    saved,          \* history: what the last save_posted_links of the run was asked to write
    words,          \* create_professional_news_card: title.split()
    max_text_width, \* create_professional_news_card: the width of the title column
    lines,          \* create_professional_news_card: the wrapped title
    text,           \* sanitize_text: its argument
    sanitized,      \* sanitize_text: what it returned
    fn,             \* the function that holds the browser: fetch_article_image or get_latest_news
    driver,         \* its local driver
    tmp_profile_dir,\* its local tmp_profile_dir
    leaving,        \* how it leaves: by return or with an exception
    openSessions,   \* the number of browser sessions that are open
    scratchDirs,    \* the number of scratch profile directories on disk
    ncalls,         \* the number of calls made so far
    signals,        \* history: the number of SIGINTs delivered
    caught,         \* history: the number of exceptions the handlers of lines 846 and 886 caught
    card            \* history: the last composition: what it was given and how it filled the top area

pipeVars == <<pc, posted_links, dedupFile, news_articles, idx, image_data,
              success, loaded, sentOk, failedSend, failedCard, calls>>
resVars == <<rpc, page, metaIdx, scriptIdx, ld_candidates, objIdx, img_candidates,
             candIdx, inner, lastDownload, fetched, raisedIn, result>>
wrapVars == <<words, max_text_width, lines>>
sanVars == <<text, sanitized>>
sessVars == <<fn, driver, tmp_profile_dir, leaving, openSessions, scratchDirs, ncalls>>
histVars == <<saved, wrapVars, sanVars, sessVars, signals, caught>>
auxVars == <<histVars, card>>
vars == <<pipeVars, resVars, auxVars>>

(***************************************************************************)
(* Bounds of the model.                                                    *)
(***************************************************************************)
MaxArticles == 2
MaxFileItems == 2

Links == {"u1", "u2"}

Range(s) == {s[i] : i \in DOMAIN s}

SeqsUpTo(S, n) == UNION {[1..k -> S] : k \in 0..n}

\* str.lower() and the `in` of two strings, on sequences of characters
UpperCase == <<"A", "B", "C", "D", "E", "F", "G", "H", "I", "J", "K", "L", "M", "N", "O", "P", "Q", "R", "S", "T", "U", "V", "W", "X", "Y", "Z">>
LowerCase == <<"a", "b", "c", "d", "e", "f", "g", "h", "i", "j", "k", "l", "m", "n", "o", "p", "q", "r", "s", "t", "u", "v", "w", "x", "y", "z">>

lower(c) == IF \E i \in DOMAIN UpperCase : UpperCase[i] = c
            THEN LowerCase[CHOOSE i \in DOMAIN UpperCase : UpperCase[i] = c]
            ELSE c

Lowered(s) == [i \in DOMAIN s |-> lower(s[i])]

Contains(s, k) ==
    \E i \in 1..(Len(s) - Len(k) + 1) : SubSeq(s, i, i + Len(k) - 1) = k

(***************************************************************************)
(* The dedup file.  A content is missing, empty, undecodable bytes, text   *)
(* that is no JSON, or a JSON value: a number, a string (its characters),  *)
(* an object (its keys) or an array (its items).  An item is a string, a   *)
(* number or a nested array; "text" is what Python's set() would hold.     *)
(***************************************************************************)
StrItem(s) == [kind |-> "str", text |-> s]
NumItem == [kind |-> "num", text |-> "#7"]
ArrItem == [kind |-> "arr", text |-> "[]"]
ObjItem == [kind |-> "obj", text |-> "{}"]

FileItems == {StrItem(l) : l \in Links} \cup {NumItem, ArrItem, ObjItem}

File(kind, items) == [kind |-> kind, items |-> items]

FileContents ==
    {File(k, <<>>) : k \in {"missing", "empty", "notjson", "undecodable", "number"}}
    \cup {File("object", <<StrItem("u1")>>), File("string", <<StrItem("u")>>)}
    \cup {File("array", s) : s \in SeqsUpTo(FileItems, MaxFileItems)}

Hashable(item) == item.kind \in {"str", "num"}

IsArrayOfStrings(f) ==
    f.kind = "array" /\ \A i \in DOMAIN f.items : f.items[i].kind = "str"

(***************************************************************************)
(* load_posted_links (the second definition, which overrides the first).   *)
(* The outcome is the new posted_links and whether an exception escaped:   *)
(* only FileNotFoundError and json.JSONDecodeError are caught.             *)
(***************************************************************************)
Loaded(raised, links) == [raised |-> raised, links |-> links]

load_posted_links(f) ==
    CASE f.kind = "missing"     -> Loaded(FALSE, {})   \* FileNotFoundError, caught
      [] f.kind = "undecodable" -> Loaded(TRUE, {})    \* UnicodeDecodeError in f.read()
      [] f.kind = "empty"       -> Loaded(FALSE, {})   \* content is blank
      [] f.kind = "notjson"     -> Loaded(FALSE, {})   \* JSONDecodeError, caught
      [] f.kind = "number"      -> Loaded(TRUE, {})    \* set(5): TypeError
      [] f.kind \in {"string", "object"} ->
            Loaded(FALSE, {f.items[i].text : i \in DOMAIN f.items})
      [] f.kind = "array" ->
            IF \A i \in DOMAIN f.items : Hashable(f.items[i])
            THEN Loaded(FALSE, {f.items[i].text : i \in DOMAIN f.items})
            ELSE Loaded(TRUE, {})                      \* unhashable item: TypeError

(***************************************************************************)
(* save_posted_links: json.dump(list(posted_links)) rewrites the file; the *)
(* list's order is whatever the set iterates in.  An I/O error is logged   *)
(* and leaves the file as it was (open failed) or truncated (write failed).*)
(***************************************************************************)
Orderings(S) == {s \in [1..Cardinality(S) -> S] : Range(s) = S}

AsItem(t) == IF t = "#7" THEN NumItem ELSE StrItem(t)

\* save_posted_links opening the file for appending: the earlier array stays.
save_posted_links_Appends(links, f, io) ==
    CASE io = "ok"        -> {File("array", (IF f.kind = "array" THEN f.items ELSE <<>>)
                                            \o [i \in DOMAIN o |-> AsItem(o[i])]) :
                                 o \in Orderings(links)}
      [] io = "openfail"  -> {f}
      [] io = "writefail" -> {File("empty", <<>>)}

save_posted_links(links, f, io) ==
    CASE io = "ok"        -> {File("array", [i \in DOMAIN o |-> AsItem(o[i])]) : o \in Orderings(links)}
      [] io = "openfail"  -> {f}
      [] io = "writefail" -> {File("empty", <<>>)}

SaveOutcomes == {"ok", "openfail", "writefail"}

(***************************************************************************)
(* send_telegram_photo_sync: True only for status 200 with ok in the       *)
(* reply; an API rejection or any exception gives False.                   *)
(***************************************************************************)
PhotoReplies == {"ok200", "rejected", "exception"}

send_telegram_photo_sync(reply) == reply = "ok200"

(***************************************************************************)
(* create_professional_news_card: everything after the title is sanitized  *)
(* runs inside try/except Exception, which returns None.                   *)
(***************************************************************************)
ComposeFaults == {"none", "internal"}

\* line 423: fetch_article_image returns None or the image bytes.
FetchResults == {"None", "image"}

\* lines 428-473: the statements of the image block that may raise, in order.
ProcessingSteps == {"open", "resize", "crop", "prescale", "mask", "paste"}
ProcessingFaults == {"none"} \cup ProcessingSteps

\* lines 452-453: target_w and target_h are assigned after the first resize and
\* crop; a step that raises before that leaves them unbound.
BeforeTargetSize == {"open", "resize", "crop"}

\* The top area of the card: what fills it, whether the label is drawn, and the
\* border around it.
Region(fill, label, border) == [fill |-> fill, label |-> label, border |-> border]
NoRegion == Region("none", FALSE, FALSE)
\* lines 473-487: the article image, pasted, with its border.
ImageRegion == Region("image", FALSE, TRUE)
\* lines 500-525: no image: grey fill (240, 240, 240), the label, the red border.
Placeholder == Region("placeholder", TRUE, TRUE)
\* lines 490-499: the fallback of the image block: grey fill and the label.
Fallback == Region("placeholder", TRUE, FALSE)

Card(raised, data, top) == [raised |-> raised, data |-> data, top |-> top]

\* lines 425-525: the top area. The handler of line 490 reads target_w and
\* target_h (lines 497-498): when they are unbound it raises UnboundLocalError.
TopArea(article_image_data, step) ==
    IF article_image_data = "None" THEN [raises |-> FALSE, top |-> Placeholder]
    ELSE IF step = "none" THEN [raises |-> FALSE, top |-> ImageRegion]
    ELSE IF step \in BeforeTargetSize THEN [raises |-> TRUE, top |-> NoRegion]
    ELSE [raises |-> FALSE, top |-> Fallback]

\* create_professional_news_card without the handler of lines 606-610.
create_card_Unguarded(article_image_data, step, fault) ==
    LET t == TopArea(article_image_data, step) IN
      IF fault = "internal" \/ t.raises THEN Card(TRUE, "None", NoRegion)
      ELSE Card(FALSE, "card", t.top)

\* create_professional_news_card with no placeholder branch.
create_card_NoPlaceholder(article_image_data, step, fault) ==
    LET t == TopArea(article_image_data, step) IN
      IF fault = "internal" \/ t.raises \/ article_image_data = "None"
      THEN Card(FALSE, "None", NoRegion)
      ELSE Card(FALSE, "card", t.top)

create_professional_news_card(article_image_data, step, fault) ==
    LET t == TopArea(article_image_data, step) IN
      IF fault = "internal" \/ t.raises THEN Card(FALSE, "None", NoRegion)
      ELSE Card(FALSE, "card", t.top)

\* What the history variable card records of a composition.
Composition(article_image_data, step, fault, top) ==
    [article_image_data |-> article_image_data, step |-> step, fault |-> fault, top |-> top]
NoComposition == Composition("None", "none", "none", NoRegion)

Call(op, link) == [op |-> op, link |-> link]

(***************************************************************************)
(* main(): startup.                                                        *)
(***************************************************************************)
NoPage == [ok |-> FALSE, imgs |-> <<>>]
NoInner == [ok |-> FALSE, og |-> [k |-> "none", abs |-> FALSE, s |-> <<>>],
            hasImg |-> FALSE, src |-> [k |-> "none", abs |-> FALSE, s |-> <<>>]]
NoDownload == [stage |-> "none", url |-> [k |-> "none", abs |-> FALSE, s |-> <<>>],
               resp |-> [err |-> TRUE, status |-> 0, decodable |-> FALSE, w |-> 0, h |-> 0],
               accepted |-> FALSE]

ResolverIdle ==
    /\ page = NoPage
    /\ metaIdx = 0
    /\ scriptIdx = 0
    /\ ld_candidates = <<>>
    /\ objIdx = 0
    /\ img_candidates = <<>>
    /\ candIdx = 0
    /\ inner = NoInner
    /\ lastDownload = NoDownload
    /\ fetched = <<>>
    /\ raisedIn = "none"
    /\ result = "unset"

Saved(io, links) == [ok |-> io = "ok", links |-> links]
NotSaved == [ok |-> FALSE, links |-> {}]

\* A text is None or a string, a sequence of characters.
NoText == [k |-> "none", s |-> <<>>]
Text(s) == [k |-> "str", s |-> s]

SessionIdle ==
    /\ fn = "none"
    /\ driver = "None"
    /\ tmp_profile_dir = "None"
    /\ leaving = "none"
    /\ openSessions = 0
    /\ scratchDirs = 0
    /\ ncalls = 0

AuxIdle ==
    /\ saved = NotSaved
    /\ words = <<>>
    /\ max_text_width = 0
    /\ lines = <<>>
    /\ text = NoText
    /\ sanitized = NoText
    /\ SessionIdle
    /\ signals = 0
    /\ caught = 0
    /\ card = NoComposition

Init ==
    /\ pc = "start"
    /\ posted_links = {}
    /\ dedupFile \in FileContents
    /\ news_articles = <<>>
    /\ idx = 0
    /\ image_data = "unset"
    /\ success = FALSE
    /\ loaded = {}
    /\ sentOk = {}
    /\ failedSend = {}
    /\ failedCard = {}
    /\ calls = <<>>
    /\ rpc = "idle"
    /\ ResolverIdle
    /\ AuxIdle

\* main, line 860: an exception of load_posted_links ends the process.
LoadPostedLinks ==
    /\ pc = "start"
    /\ LET r == load_posted_links(dedupFile) IN
         /\ pc' = IF r.raised THEN "crashed" ELSE "loaded"
         /\ posted_links' = IF r.raised THEN posted_links ELSE r.links
         /\ loaded' = IF r.raised THEN loaded ELSE r.links
    /\ UNCHANGED <<dedupFile, news_articles, idx, image_data, success, sentOk,
                   failedSend, failedCard, calls, resVars, auxVars>>

\* main, lines 863-870: send_telegram_message_sync never raises.
StartupMessage ==
    /\ pc = "loaded"
    /\ pc' = "cycle"
    /\ UNCHANGED <<posted_links, dedupFile, news_articles, idx, image_data, success,
                   loaded, sentOk, failedSend, failedCard, calls, resVars, auxVars>>

(***************************************************************************)
(* process_and_send_news.                                                  *)
(***************************************************************************)
\* lines 795-801: the list scraped this cycle; [] also stands for a scrape error.
GetLatestNews ==
    /\ pc = "cycle"
    /\ \E l \in SeqsUpTo(Links, MaxArticles) :
         /\ news_articles' = l
         /\ pc' = IF l = <<>> THEN "sleep" ELSE "loop"
    /\ idx' = 1
    /\ calls' = <<>>
    /\ image_data' = "unset"
    /\ success' = FALSE
    /\ UNCHANGED <<posted_links, dedupFile, loaded, sentOk, failedSend, failedCard,
                   resVars, auxVars>>

MaxExceptions == 1

\* lines 784-788: driver.quit() in the finally block raises; main's handler logs it.
GetLatestNewsRaises ==
    /\ pc = "cycle"
    /\ caught < MaxExceptions
    /\ caught' = caught + 1
    /\ pc' = "cooldown"
    /\ UNCHANGED <<posted_links, dedupFile, news_articles, idx, image_data, success,
                   loaded, sentOk, failedSend, failedCard, calls, resVars, saved,
                   wrapVars, sanVars, sessVars, signals, card>>

AtArticle == pc = "loop" /\ idx <= Len(news_articles)

link == news_articles[idx]

NextArticle ==
    /\ pc' = "loop"
    /\ idx' = idx + 1
    /\ card' = NoComposition

\* lines 807-809: if link in posted_links: continue
SkipPosted ==
    /\ AtArticle
    /\ link \in posted_links
    /\ NextArticle
    /\ UNCHANGED <<posted_links, dedupFile, news_articles, image_data, success,
                   loaded, sentOk, failedSend, failedCard, calls, resVars, histVars>>

\* NewArticle without the membership test of line 808.
NewArticleUnchecked ==
    /\ AtArticle
    /\ pc' = "compose"
    /\ calls' = Append(calls, Call("compose", link))
    /\ UNCHANGED <<posted_links, dedupFile, news_articles, idx, image_data, success,
                   loaded, sentOk, failedSend, failedCard, resVars, auxVars>>

\* lines 811-815: a new article; create_professional_news_card is called.
NewArticle ==
    /\ AtArticle
    /\ link \notin posted_links
    /\ pc' = "compose"
    /\ calls' = Append(calls, Call("compose", link))
    /\ UNCHANGED <<posted_links, dedupFile, news_articles, idx, image_data, success,
                   loaded, sentOk, failedSend, failedCard, resVars, auxVars>>

\* line 815 returns (or raises into the handler of line 846).
CreateCard ==
    /\ pc = "compose"
    /\ \E article_image_data \in FetchResults, step \in ProcessingFaults,
          fault \in ComposeFaults :
         LET c == create_professional_news_card(article_image_data, step, fault) IN
           \* the image block runs only on an image; one failure per composition
           /\ step # "none" => (article_image_data = "image" /\ fault = "none")
           /\ image_data' = IF c.raised THEN "raised" ELSE c.data
           /\ failedCard' = IF c.data = "card" /\ ~c.raised
                            THEN failedCard \ {link} ELSE failedCard \cup {link}
           /\ card' = Composition(article_image_data, step, fault, c.top)
    /\ pc' = "composed"
    /\ UNCHANGED <<posted_links, dedupFile, news_articles, idx, success, loaded,
                   sentOk, failedSend, calls, resVars, saved, wrapVars, sanVars,
                   sessVars, signals, caught>>

\* NoCard marking the article as posted although nothing was sent.
NoCardMarksPosted ==
    /\ pc = "composed"
    /\ image_data # "card"
    /\ NextArticle
    /\ posted_links' = posted_links \cup {link}
    /\ UNCHANGED <<dedupFile, news_articles, image_data, success,
                   loaded, sentOk, failedSend, failedCard, calls, resVars, histVars>>

\* lines 843-847: no card (or an exception caught by the handler): log, next article.
NoCard ==
    /\ pc = "composed"
    /\ image_data # "card"
    /\ NextArticle
    /\ UNCHANGED <<posted_links, dedupFile, news_articles, image_data, success,
                   loaded, sentOk, failedSend, failedCard, calls, resVars, histVars>>

\* lines 817-823: the card is sent to the main group.
SendPhoto ==
    /\ pc = "composed"
    /\ image_data = "card"
    /\ \E reply \in PhotoReplies :
         LET ok == send_telegram_photo_sync(reply) IN
           /\ success' = ok
           /\ sentOk' = IF ok THEN sentOk \cup {link} ELSE sentOk
           /\ failedSend' = IF ok THEN failedSend \ {link} ELSE failedSend \cup {link}
    /\ calls' = Append(calls, Call("send", link))
    /\ pc' = "sent"
    /\ UNCHANGED <<posted_links, dedupFile, news_articles, idx, image_data, loaded,
                   failedCard, resVars, auxVars>>

\* SendFailed marking the article as posted although the send failed.
SendFailedMarksPosted ==
    /\ pc = "sent"
    /\ ~success
    /\ NextArticle
    /\ posted_links' = posted_links \cup {link}
    /\ UNCHANGED <<dedupFile, news_articles, image_data, success,
                   loaded, sentOk, failedSend, failedCard, calls, resVars, histVars>>

\* lines 841-842: the send failed; log, next article.
SendFailed ==
    /\ pc = "sent"
    /\ ~success
    /\ NextArticle
    /\ UNCHANGED <<posted_links, dedupFile, news_articles, image_data, success,
                   loaded, sentOk, failedSend, failedCard, calls, resVars, histVars>>

\* lines 825-829: posted_links.add(link)
MarkPosted ==
    /\ pc = "sent"
    /\ success
    /\ posted_links' = posted_links \cup {link}
    /\ pc' = "debug"
    /\ UNCHANGED <<dedupFile, news_articles, idx, image_data, success, loaded,
                   sentOk, failedSend, failedCard, calls, resVars, auxVars>>

\* lines 832-834: the debug notification; send_telegram_message_sync never raises.
DebugMessage ==
    /\ pc = "debug"
    /\ pc' = "save"
    /\ UNCHANGED <<posted_links, dedupFile, news_articles, idx, image_data, success,
                   loaded, sentOk, failedSend, failedCard, calls, resVars, auxVars>>

\* line 837: save_posted_links()
SaveProgress ==
    /\ pc = "save"
    /\ \E io \in SaveOutcomes :
         dedupFile' \in save_posted_links(posted_links, dedupFile, io)
    /\ pc' = "pace"
    /\ UNCHANGED <<posted_links, news_articles, idx, image_data, success, loaded,
                   sentOk, failedSend, failedCard, calls, resVars, auxVars>>

\* line 840: time.sleep(3), then the next article.
Pace ==
    /\ pc = "pace"
    /\ NextArticle
    /\ UNCHANGED <<posted_links, dedupFile, news_articles, image_data, success,
                   loaded, sentOk, failedSend, failedCard, calls, resVars, histVars>>

\* the statements of the try block of lines 813-845
InTry == {"compose", "composed", "sent", "debug", "save", "pace"}

\* ArticleRaises with the try around the whole for loop: the exception ends the loop.
ArticleRaises_EndsLoop ==
    /\ pc \in InTry \ {"compose"}
    /\ caught < MaxExceptions
    /\ caught' = caught + 1
    /\ pc' = "sleep"
    /\ card' = NoComposition
    /\ UNCHANGED <<posted_links, dedupFile, news_articles, idx, image_data, success,
                   loaded, sentOk, failedSend, failedCard, calls, resVars, saved,
                   wrapVars, sanVars, sessVars, signals>>

\* lines 846-847: a statement of the try block raises (create_professional_news_card
\* itself never does); the handler logs it and the for loop goes on.
ArticleRaises ==
    /\ pc \in InTry \ {"compose"}
    /\ caught < MaxExceptions
    /\ caught' = caught + 1
    /\ NextArticle
    /\ UNCHANGED <<posted_links, dedupFile, news_articles, image_data, success,
                   loaded, sentOk, failedSend, failedCard, calls, resVars, saved,
                   wrapVars, sanVars, sessVars, signals>>

\* lines 849-852: the for loop is over.
EndOfArticles ==
    /\ pc = "loop"
    /\ idx > Len(news_articles)
    /\ pc' = "sleep"
    /\ UNCHANGED <<posted_links, dedupFile, news_articles, idx, image_data, success,
                   loaded, sentOk, failedSend, failedCard, calls, resVars, auxVars>>

(***************************************************************************)
(* main(): the poll loop.                                                  *)
(***************************************************************************)
\* lines 880-881: time.sleep(CHECK_INTERVAL), then the next cycle.
Sleep ==
    /\ pc = "sleep"
    /\ pc' = "cycle"
    /\ UNCHANGED <<posted_links, dedupFile, news_articles, idx, image_data, success,
                   loaded, sentOk, failedSend, failedCard, calls, resVars, auxVars>>

\* lines 886-888: time.sleep(60), then the next cycle.
Cooldown ==
    /\ pc = "cooldown"
    /\ pc' = "cycle"
    /\ UNCHANGED <<posted_links, dedupFile, news_articles, idx, image_data, success,
                   loaded, sentOk, failedSend, failedCard, calls, resVars, auxVars>>

Next ==
    \/ LoadPostedLinks
    \/ StartupMessage
    \/ GetLatestNews
    \/ GetLatestNewsRaises
    \/ SkipPosted
    \/ NewArticle
    \/ CreateCard
    \/ NoCard
    \/ SendPhoto
    \/ SendFailed
    \/ MarkPosted
    \/ DebugMessage
    \/ SaveProgress
    \/ Pace
    \/ ArticleRaises
    \/ EndOfArticles
    \/ Sleep
    \/ Cooldown

Spec == Init /\ [][Next]_vars

(***************************************************************************)
(* SIGINT.  signal_handler (lines 637-643) runs in the main thread between *)
(* two bytecodes of whatever main() is doing: it saves posted_links, and   *)
(* sys.exit(0) raises SystemExit at that point.  `except Exception` lets   *)
(* SystemExit through; the bare `except:` clauses of the font loading      *)
(* (lines 374, 387, 389) catch it.                                         *)
(***************************************************************************)
MaxSignals == 1

signal_handler ==
    /\ signals < MaxSignals
    /\ signals' = signals + 1
    /\ \E io \in SaveOutcomes :
         /\ dedupFile' \in save_posted_links(posted_links, dedupFile, io)
         /\ saved' = Saved(io, posted_links)
    /\ UNCHANGED <<posted_links, loaded, sentOk, failedSend, failedCard, resVars,
                   wrapVars, sanVars, sessVars, caught>>

\* SystemExit reaches the top of the process, and the locals of the loop are gone.
SignalExits ==
    /\ pc \notin {"crashed", "exited"}
    /\ signal_handler
    /\ pc' = "exited"
    /\ news_articles' = <<>>
    /\ idx' = 0
    /\ image_data' = "unset"
    /\ success' = FALSE
    /\ calls' = <<>>
    /\ card' = NoComposition

\* The signal arrives inside ImageFont.truetype (lines 369-372, 385): the
\* bare except takes SystemExit for a missing font and the card goes on.
SignalInFontLoading ==
    /\ pc = "compose"
    /\ signal_handler
    /\ UNCHANGED <<pc, news_articles, idx, image_data, success, calls, card>>

NextSignal ==
    \/ Next
    \/ SignalExits
    \/ SignalInFontLoading

\* The run starts with no file or with one an earlier run saved.
SavedFiles ==
    {File("missing", <<>>)}
    \cup UNION {save_posted_links(S, File("missing", <<>>), "ok") : S \in SUBSET Links}

InitSignal ==
    /\ pc = "start"
    /\ posted_links = {}
    /\ dedupFile \in SavedFiles
    /\ news_articles = <<>>
    /\ idx = 0
    /\ image_data = "unset"
    /\ success = FALSE
    /\ loaded = {}
    /\ sentOk = {}
    /\ failedSend = {}
    /\ failedCard = {}
    /\ calls = <<>>
    /\ rpc = "idle"
    /\ ResolverIdle
    /\ AuxIdle

SpecSignal == InitSignal /\ [][NextSignal]_vars

\* main() is one thread that always has a next statement: every sleep ends and
\* every request and wait has a timeout.
SpecLive == SpecSignal /\ WF_vars(Next)

(***************************************************************************)
(* The dedup file across two runs: a run adds links and saves (lines 827   *)
(* and 837); a fresh process loads what is on disk (line 860).  The file   *)
(* the run starts with is whatever an earlier run left.                    *)
(***************************************************************************)
InitRoundTrip ==
    /\ pc = "run"
    /\ posted_links = {}
    /\ dedupFile \in FileContents
    /\ news_articles = <<>>
    /\ idx = 0
    /\ image_data = "unset"
    /\ success = FALSE
    /\ loaded = {}
    /\ sentOk = {}
    /\ failedSend = {}
    /\ failedCard = {}
    /\ calls = <<>>
    /\ rpc = "idle"
    /\ ResolverIdle
    /\ AuxIdle

\* line 827: posted_links.add(link)
AddLink ==
    /\ pc = "run"
    /\ \E l \in Links \ posted_links : posted_links' = posted_links \cup {l}
    /\ UNCHANGED <<pc, dedupFile, news_articles, idx, image_data, success, loaded,
                   sentOk, failedSend, failedCard, calls, resVars, auxVars>>

\* line 837: save_posted_links(), the last one of the run.
LastSave ==
    /\ pc = "run"
    /\ \E io \in SaveOutcomes :
         /\ dedupFile' \in save_posted_links(posted_links, dedupFile, io)
         /\ saved' = Saved(io, posted_links)
    /\ pc' = "ended"
    /\ UNCHANGED <<posted_links, news_articles, idx, image_data, success, loaded,
                   sentOk, failedSend, failedCard, calls, resVars, wrapVars, sanVars, sessVars,
                   signals, caught, card>>

\* lines 59 and 860: a fresh process starts from the empty set and loads the file.
FreshLoad ==
    /\ pc = "ended"
    /\ LET r == load_posted_links(dedupFile) IN
         /\ pc' = IF r.raised THEN "crashed" ELSE "loaded"
         /\ posted_links' = IF r.raised THEN {} ELSE r.links
         /\ loaded' = IF r.raised THEN {} ELSE r.links
    /\ UNCHANGED <<dedupFile, news_articles, idx, image_data, success, sentOk,
                   failedSend, failedCard, calls, resVars, auxVars>>

NextRoundTrip ==
    \/ AddLink
    \/ LastSave
    \/ FreshLoad

SpecRoundTrip == InitRoundTrip /\ [][NextRoundTrip]_vars

(***************************************************************************)
(* create_professional_news_card, lines 538-576: the title is wrapped into *)
(* the column.  A line is a sequence of characters; draw.textbbox gives    *)
(* its rendered width, the sum of the widths of its glyphs.  The column of *)
(* the template is wider than any single glyph and than the ellipsis.      *)
(***************************************************************************)
MaxWords == 4
MaxColumn == 5
max_lines == 3

Ellipsis == "..."

GlyphWidth(c) == IF c = "m" \/ c = Ellipsis THEN 2 ELSE 1

MaxGlyph == 2

RECURSIVE textwidth(_)
textwidth(line) ==
    IF line = <<>> THEN 0 ELSE GlyphWidth(Head(line)) + textwidth(Tail(line))

Front(line) == SubSeq(line, 1, Len(line) - 1)

\* (current_line + " " + word).strip()
test_line(current_line, word) ==
    IF current_line = <<>> THEN word ELSE current_line \o <<" ">> \o word

\* lines 561-563: hard = hard[:-1] while it is too wide
RECURSIVE HardCut(_, _)
HardCut(hard, col) ==
    IF hard # <<>> /\ textwidth(hard) > col THEN HardCut(Front(hard), col) ELSE hard

\* lines 546-565: the while loop, from one of its turns to its end
RECURSIVE WrapLoop(_, _, _, _, _)
WrapLoop(ws, word_index, current_line, ls, col) ==
    IF word_index < Len(ws) /\ Len(ls) < max_lines
    THEN LET word == ws[word_index + 1]
             t == test_line(current_line, word)
         IN  IF textwidth(t) <= col
             THEN WrapLoop(ws, word_index + 1, t, ls, col)
             ELSE IF current_line # <<>>
             THEN WrapLoop(ws, word_index, <<>>, Append(ls, current_line), col)
             ELSE LET hard == HardCut(word, col) IN
                    WrapLoop(ws, word_index + 1, <<>>,
                             Append(ls, IF hard # <<>> THEN hard ELSE SubSeq(word, 1, 1)),
                             col)
    ELSE [lines |-> ls, current_line |-> current_line, word_index |-> word_index]

\* Ellipsize appending the marker without trimming the line first.
RECURSIVE Ellipsize_NoTrim(_, _)
Ellipsize_NoTrim(last, col) == last \o <<Ellipsis>>

\* lines 570-576: the last line is trimmed until it fits with the marker
RECURSIVE Ellipsize(_, _)
Ellipsize(last, col) ==
    IF textwidth(last \o <<Ellipsis>>) <= col \/ last = <<>>
    THEN last \o <<Ellipsis>>
    ELSE Ellipsize(Front(last), col)

\* lines 541-576
wrap_title(ws, col) ==
    LET r == WrapLoop(ws, 0, <<>>, <<>>, col)
        ls == IF r.current_line # <<>> /\ Len(r.lines) < max_lines
              THEN Append(r.lines, r.current_line) ELSE r.lines
    IN  IF r.word_index < Len(ws) /\ ls # <<>>
        THEN [ls EXCEPT ![Len(ls)] = Ellipsize(ls[Len(ls)], col)]
        ELSE ls

\* The words of a title: get_latest_news keeps only titles that are not blank.
TitleWords == {<<"i">>, <<"m", "i">>, <<"m", "m", "m">>}

Titles == SeqsUpTo(TitleWords, MaxWords) \ {<<>>}

InitWrap ==
    /\ pc = "wrap"
    /\ posted_links = {}
    /\ dedupFile = File("missing", <<>>)
    /\ news_articles = <<>>
    /\ idx = 0
    /\ image_data = "unset"
    /\ success = FALSE
    /\ loaded = {}
    /\ sentOk = {}
    /\ failedSend = {}
    /\ failedCard = {}
    /\ calls = <<>>
    /\ rpc = "idle"
    /\ ResolverIdle
    /\ saved = NotSaved
    /\ words \in Titles
    /\ max_text_width \in MaxGlyph..MaxColumn
    /\ lines = <<>>
    /\ text = NoText
    /\ sanitized = NoText
    /\ SessionIdle
    /\ signals = 0
    /\ caught = 0
    /\ card = NoComposition

WrapTitle ==
    /\ pc = "wrap"
    /\ lines' = wrap_title(words, max_text_width)
    /\ pc' = "wrapped"
    /\ UNCHANGED <<posted_links, dedupFile, news_articles, idx, image_data, success,
                   loaded, sentOk, failedSend, failedCard, calls, resVars, saved,
                   words, max_text_width, sanVars, sessVars, signals,
                   caught, card>>

NextWrap == WrapTitle

SpecWrap == InitWrap /\ [][NextWrap]_vars

(***************************************************************************)
(* sanitize_text, lines 62-101: one re.sub per entry of replacements, in   *)
(* the order of the dict, each with re.IGNORECASE.                         *)
(***************************************************************************)
MaxPieces == 4

replacements ==
    <<
       <<<<"k", "i", "l", "l">>,
         <<"K", "i", "*", "l", "l">>>>,
       <<<<"k", "i", "l", "l", "s">>,
         <<"K", "i", "*", "l", "l", "s">>>>,
       <<<<"k", "i", "l", "l", "e", "d">>,
         <<"K", "i", "l", "*", "l", "e", "d">>>>,
       <<<<"m", "u", "r", "d", "e", "r">>,
         <<"M", "u", "*", "r", "d", "e", "r">>>>,
       <<<<"m", "u", "r", "d", "e", "r", "s">>,
         <<"M", "u", "*", "r", "d", "e", "r", "s">>>>,
       <<<<"m", "u", "r", "d", "e", "r", "e", "d">>,
         <<"M", "u", "r", "*", "d", "e", "r", "e", "d">>>>,
       <<<<"a", "s", "s", "a", "s", "s", "i", "n", "a", "t", "e">>,
         <<"A", "s", "*", "s", "a", "*", "s", "s", "i", "n", "a", "t", "e">>>>,
       <<<<"a", "s", "s", "a", "s", "s", "i", "n", "a", "t", "e", "s">>,
         <<"A", "s", "*", "s", "a", "*", "s", "s", "i", "n", "a", "t", "e", "s">>>>,
       <<<<"a", "s", "s", "a", "s", "s", "i", "n", "a", "t", "e", "d">>,
         <<"A", "s", "*", "s", "a", "*", "s", "s", "i", "n", "a", "t", "e", "d">>>>,
       <<<<"s", "t", "a", "b">>,
         <<"S", "t", "*", "a", "b">>>>,
       <<<<"s", "t", "a", "b", "s">>,
         <<"S", "t", "*", "a", "b", "s">>>>,
       <<<<"s", "t", "a", "b", "b", "e", "d">>,
         <<"S", "t", "*", "a", "b", "b", "e", "d">>>>,
       <<<<"s", "l", "a", "u", "g", "h", "t", "e", "r">>,
         <<"S", "l", "*", "a", "u", "g", "h", "t", "e", "r">>>>,
       <<<<"s", "l", "a", "u", "g", "h", "t", "e", "r", "s">>,
         <<"S", "l", "*", "a", "u", "g", "h", "t", "e", "r", "s">>>>,
       <<<<"s", "l", "a", "u", "g", "h", "t", "e", "r", "e", "d">>,
         <<"S", "l", "*", "a", "u", "g", "h", "t", "e", "r", "e", "d">>>>,
       <<<<"r", "a", "p", "e">>,
         <<"R", "a", "*", "p", "e">>>>,
       <<<<"r", "a", "p", "e", "s">>,
         <<"R", "a", "*", "p", "e", "s">>>>,
       <<<<"r", "a", "p", "e", "d">>,
         <<"R", "a", "*", "p", "e", "d">>>>,
       <<<<"g", "a", "z", "a">>,
         <<"G", "a", "*", "z", "a">>>>,
       <<<<"i", "s", "r", "a", "e", "l">>,
         <<"I", "s", "r", "*", "a", "e", "l">>>>,
       <<<<"p", "a", "l", "e", "s", "t", "i", "n", "e">>,
         <<"P", "a", "*", "l", "e", "*", "s", "t", "i", "n", "e">>>>
    >>

Digits == {"0", "1", "2", "3", "4", "5", "6", "7", "8", "9"}

Letter(c) == \E i \in 1..26 : c = UpperCase[i] \/ c = LowerCase[i]

\* \w
WordChar(c) == Letter(c) \/ c \in Digits \/ c = "_"

\* \b before position i of s (i = Len(s) + 1: at the end)
WordBoundary(s, i) ==
    (i > 1 /\ WordChar(s[i - 1])) # (i <= Len(s) /\ WordChar(s[i]))

\* MatchAt without the \b on either side of the pattern.
MatchAt_NoBoundary(s, i, w) ==
    /\ i + Len(w) - 1 <= Len(s)
    /\ Lowered(SubSeq(s, i, i + Len(w) - 1)) = w

\* \bw\b with re.IGNORECASE matches s at position i
MatchAt(s, i, w) ==
    /\ i + Len(w) - 1 <= Len(s)
    /\ Lowered(SubSeq(s, i, i + Len(w) - 1)) = w
    /\ WordBoundary(s, i)
    /\ WordBoundary(s, i + Len(w))

\* re.sub(pattern, replacement, s) from position i on: the leftmost matches,
\* none overlapping another
RECURSIVE Sub(_, _, _, _)
Sub(w, replacement, s, i) ==
    IF i > Len(s) THEN <<>>
    ELSE IF MatchAt(s, i, w) THEN replacement \o Sub(w, replacement, s, i + Len(w))
    ELSE <<s[i]>> \o Sub(w, replacement, s, i + 1)

\* lines 98-100: the loop over replacements.items(), from entry n on
RECURSIVE SubAll(_, _)
SubAll(s, n) ==
    IF n > Len(replacements) THEN s
    ELSE SubAll(Sub(replacements[n][1], replacements[n][2], s, 1), n + 1)

sanitize_text(t) ==
    IF t.k = "none" \/ t.s = <<>> THEN t ELSE Text(SubAll(t.s, 1))

\* The texts: None, "" and what up to MaxPieces of these pieces spell.
Pieces ==
    { <<"k", "i", "l", "l">>, <<"K", "i", "L", "L">>, <<"G", "A", "Z", "A">>,
      <<"s">>, <<"e", "d">>, <<" ">>, <<"-">>, <<"2">> }

RECURSIVE Spell(_)
Spell(ps) == IF ps = <<>> THEN <<>> ELSE Head(ps) \o Spell(Tail(ps))

Texts == {NoText} \cup {Text(Spell(ps)) : ps \in SeqsUpTo(Pieces, MaxPieces)}

InitSanitize ==
    /\ pc = "sanitize"
    /\ posted_links = {}
    /\ dedupFile = File("missing", <<>>)
    /\ news_articles = <<>>
    /\ idx = 0
    /\ image_data = "unset"
    /\ success = FALSE
    /\ loaded = {}
    /\ sentOk = {}
    /\ failedSend = {}
    /\ failedCard = {}
    /\ calls = <<>>
    /\ rpc = "idle"
    /\ ResolverIdle
    /\ saved = NotSaved
    /\ words = <<>>
    /\ max_text_width = 0
    /\ lines = <<>>
    /\ text \in Texts
    /\ sanitized = NoText
    /\ SessionIdle
    /\ signals = 0
    /\ caught = 0
    /\ card = NoComposition

SanitizeText ==
    /\ pc = "sanitize"
    /\ sanitized' = sanitize_text(text)
    /\ pc' = "sanitized"
    /\ UNCHANGED <<posted_links, dedupFile, news_articles, idx, image_data, success,
                   loaded, sentOk, failedSend, failedCard, calls, resVars, saved,
                   wrapVars, text, sessVars, signals, caught, card>>

NextSanitize == SanitizeText

SpecSanitize == InitSanitize /\ [][NextSanitize]_vars

(***************************************************************************)
(* The browser session and its scratch profile directory, as               *)
(* fetch_article_image (lines 184-201, 319-330) and get_latest_news (lines *)
(* 715-731, 780-788) acquire and release them.  Any of the calls can       *)
(* raise; driver.quit() is one of them.                                    *)
(***************************************************************************)
MaxCalls == 3

BrowserUsers == {"fetch_article_image", "get_latest_news"}

besideSession ==
    <<posted_links, dedupFile, news_articles, idx, image_data, success, loaded,
      sentOk, failedSend, failedCard, calls, resVars, saved, wrapVars, sanVars,
      signals, caught, card>>

InitSession ==
    /\ pc = "idle"
    /\ posted_links = {}
    /\ dedupFile = File("missing", <<>>)
    /\ news_articles = <<>>
    /\ idx = 0
    /\ image_data = "unset"
    /\ success = FALSE
    /\ loaded = {}
    /\ sentOk = {}
    /\ failedSend = {}
    /\ failedCard = {}
    /\ calls = <<>>
    /\ rpc = "idle"
    /\ ResolverIdle
    /\ AuxIdle

\* lines 184-185 and 715-716: driver = None, tmp_profile_dir = None
CallBrowserUser ==
    /\ pc = "idle"
    /\ ncalls < MaxCalls
    /\ ncalls' = ncalls + 1
    /\ fn' \in BrowserUsers
    /\ driver' = "None"
    /\ tmp_profile_dir' = "None"
    /\ leaving' = "none"
    /\ pc' = "mkdtemp"
    /\ UNCHANGED <<openSessions, scratchDirs>>
    /\ UNCHANGED besideSession

\* lines 188 and 719: tempfile.mkdtemp
Mkdtemp ==
    /\ pc = "mkdtemp"
    /\ \/ /\ tmp_profile_dir' = "dir"
          /\ scratchDirs' = scratchDirs + 1
          /\ pc' = "install"
       \/ /\ pc' = "handler"
          /\ UNCHANGED <<tmp_profile_dir, scratchDirs>>
    /\ UNCHANGED <<fn, driver, leaving, openSessions, ncalls>>
    /\ UNCHANGED besideSession

\* lines 193-195 and 723-725: os.makedirs and ChromeDriverManager(...).install()
InstallDriver ==
    /\ pc = "install"
    /\ pc' \in {"chrome", "handler"}
    /\ UNCHANGED sessVars
    /\ UNCHANGED besideSession

\* lines 201 and 730: webdriver.Chrome; when it raises, driver stays None
StartChrome ==
    /\ pc = "chrome"
    /\ \/ /\ driver' = "session"
          /\ openSessions' = openSessions + 1
          /\ pc' = "body"
       \/ /\ pc' = "handler"
          /\ UNCHANGED <<driver, openSessions>>
    /\ UNCHANGED <<fn, tmp_profile_dir, leaving, scratchDirs, ncalls>>
    /\ UNCHANGED besideSession

\* lines 202-317 and 731-778: the work with the page; it returns or raises
UseBrowser ==
    /\ pc = "body"
    /\ \/ pc' = "finally" /\ leaving' = "return"
       \/ pc' = "handler" /\ UNCHANGED leaving
    /\ UNCHANGED <<fn, driver, tmp_profile_dir, openSessions, scratchDirs, ncalls>>
    /\ UNCHANGED besideSession

\* lines 319-321 and 780-782: except Exception: return None / return []
ExceptHandler ==
    /\ pc = "handler"
    /\ leaving' = "return"
    /\ pc' = "finally"
    /\ UNCHANGED <<fn, driver, tmp_profile_dir, openSessions, scratchDirs, ncalls>>
    /\ UNCHANGED besideSession

\* lines 323-324 and 785-786: if driver: driver.quit().  When quit raises, the
\* session may or may not be gone, the rest of the finally block is skipped and
\* the exception leaves get_latest_news; in fetch_article_image the handler of
\* line 328 turns it into return None.
QuitDriver ==
    /\ pc = "finally"
    /\ \/ /\ driver = "None"
          /\ pc' = "rmtree"
          /\ UNCHANGED <<driver, openSessions, leaving>>
       \/ /\ driver = "session"
          /\ driver' = "closed"
          /\ openSessions' = openSessions - 1
          /\ pc' = "rmtree"
          /\ UNCHANGED leaving
       \/ /\ driver = "session"
          /\ \E gone \in BOOLEAN :
               /\ driver' = IF gone THEN "closed" ELSE "session"
               /\ openSessions' = IF gone THEN openSessions - 1 ELSE openSessions
          /\ leaving' = IF fn = "get_latest_news" THEN "raise" ELSE "return"
          /\ pc' = "left"
    /\ UNCHANGED <<fn, tmp_profile_dir, scratchDirs, ncalls>>
    /\ UNCHANGED besideSession

\* lines 325-326 and 787-788: if tmp_profile_dir: shutil.rmtree(...)
RemoveScratchDir ==
    /\ pc = "rmtree"
    /\ IF tmp_profile_dir = "dir"
       THEN tmp_profile_dir' = "removed" /\ scratchDirs' = scratchDirs - 1
       ELSE UNCHANGED <<tmp_profile_dir, scratchDirs>>
    /\ pc' = "left"
    /\ UNCHANGED <<fn, driver, leaving, openSessions, ncalls>>
    /\ UNCHANGED besideSession

\* the caller goes on: the next article, the next cycle
BackToCaller ==
    /\ pc = "left"
    /\ pc' = "idle"
    /\ UNCHANGED sessVars
    /\ UNCHANGED besideSession

NextSession ==
    \/ CallBrowserUser
    \/ Mkdtemp
    \/ InstallDriver
    \/ StartChrome
    \/ UseBrowser
    \/ ExceptHandler
    \/ QuitDriver
    \/ RemoveScratchDir
    \/ BackToCaller

SpecSession == InitSession /\ [][NextSession]_vars

(***************************************************************************)
(* fetch_article_image.  Text the code inspects (urls, class names) is a   *)
(* sequence of characters.  A value read from the page is None, a string   *)
(* (relative or absolute url) or, in JSON-LD, something that is no string  *)
(* (a dict, a number).                                                     *)
(***************************************************************************)
MaxImgs == 2
MinWidth == 400
MinHeight == 250
StatusOK == 200
MaxTried == 8
ScoreParent == 2
ScoreOwn == 3

NoneVal == [k |-> "none", abs |-> FALSE, s |-> <<>>]
Str(abs, s) == [k |-> "str", abs |-> abs, s |-> s]
NonStr == [k |-> "obj", abs |-> FALSE, s |-> <<>>]

\* Python truthiness: None and "" are falsy, a dict or a number is not.
Truthy(v) == v.k = "obj" \/ (v.k = "str" /\ v.s # <<>>)

ArticleUrl == Str(TRUE, <<"s", "/", "n">>)

\* urljoin: an absolute url stands; a relative one replaces the base's last segment.
BaseDir(s) ==
    LET slashes == {i \in DOMAIN s : s[i] = "/"} IN
      IF slashes = {} THEN <<>>
      ELSE SubSeq(s, 1, CHOOSE i \in slashes : \A j \in slashes : j <= i)

urljoin(base, u) == IF u.abs THEN u ELSE Str(TRUE, BaseDir(base.s) \o u.s)

\* lines 136-143: urljoin raises TypeError on a non-string, and maybe_url is returned.
make_absolute(base, maybe_url) ==
    IF ~Truthy(maybe_url) THEN NoneVal
    ELSE IF maybe_url.k = "str" THEN urljoin(base, maybe_url)
    ELSE maybe_url

banned_keywords == <<<<"l", "o", "g", "o">>, <<"f", "a", "v", "i", "c", "o", "n">>, <<"s", "p", "r", "i", "t", "e">>,
                     <<"p", "l", "a", "c", "e", "h", "o", "l", "d", "e", "r">>,
                     <<"d", "e", "f", "a", "u", "l", "t">>, <<"a", "v", "a", "t", "a", "r">>>>

\* is_probably_logo without the .lower() of line 148.
is_probably_logo_CaseSensitive(url_str) ==
    IF ~Truthy(url_str) THEN [raised |-> FALSE, logo |-> TRUE]
    ELSE IF url_str.k # "str" THEN [raised |-> TRUE, logo |-> FALSE]
    ELSE [raised |-> FALSE,
          logo |-> \E i \in DOMAIN banned_keywords :
                      Contains(url_str.s, banned_keywords[i])]

\* lines 145-150: .lower() raises AttributeError on a non-string.
is_probably_logo(url_str) ==
    IF ~Truthy(url_str) THEN [raised |-> FALSE, logo |-> TRUE]
    ELSE IF url_str.k # "str" THEN [raised |-> TRUE, logo |-> FALSE]
    ELSE [raised |-> FALSE,
          logo |-> \E i \in DOMAIN banned_keywords :
                      Contains(Lowered(url_str.s), banned_keywords[i])]

\* What requests.get and Image.open give for an image url.
Response(err, status, decodable, w, h) ==
    [err |-> err, status |-> status, decodable |-> decodable, w |-> w, h |-> h]

Responses ==
    { Response(TRUE, 0, FALSE, 0, 0),           \* the request raises
      Response(FALSE, 404, TRUE, 800, 600),     \* not 200
      Response(FALSE, 200, FALSE, 0, 0),        \* no image
      Response(FALSE, 200, TRUE, 399, 250),
      Response(FALSE, 200, TRUE, 400, 249),
      Response(FALSE, 200, TRUE, 400, 250) }

\* download_and_validate_image with `and` for the `or` of line 161.
download_and_validate_image_BothSmall(resp) ==
    /\ ~resp.err
    /\ resp.status = StatusOK
    /\ resp.decodable
    /\ ~(resp.w < MinWidth /\ resp.h < MinHeight)

\* lines 152-168: TRUE when img_data is returned, FALSE when None is.
download_and_validate_image(resp) ==
    /\ ~resp.err
    /\ resp.status = StatusOK
    /\ resp.decodable
    /\ ~(resp.w < MinWidth \/ resp.h < MinHeight)

(***************************************************************************)
(* The page.  A meta tag's content and a JSON-LD script are read when      *)
(* their turn comes (soup.find, json.loads); the img elements are read all *)
(* at once (soup.find_all), so they are part of the page from the start.   *)
(***************************************************************************)
RelPic == Str(FALSE, <<"p">>)
AbsPic == Str(TRUE, <<"c", "/", "q">>)
SetPic == Str(FALSE, <<"r">>)
LogoUrl == Str(FALSE, <<"L", "o", "G", "O">>)
AvatarUrl == Str(TRUE, <<"c", "/", "A", "v", "a", "t", "a", "r">>)
OtherHref == Str(FALSE, <<"m">>)
SameHref == Str(FALSE, <<"n">>)

MetaContents == {NoneVal, Str(FALSE, <<>>), RelPic, LogoUrl}

\* One JSON-LD object: whether it is a dict, the shape of its "image" field and
\* the value the code takes from it (the string, the list's first element, the
\* dict's "url").
LdObj(isDict, shape, val) == [isDict |-> isDict, shape |-> shape, val |-> val]

LdObjs ==
    { LdObj(FALSE, "absent", NoneVal),
      LdObj(TRUE, "absent", NoneVal),
      LdObj(TRUE, "str", RelPic),
      LdObj(TRUE, "str", LogoUrl),
      LdObj(TRUE, "list", AbsPic),
      LdObj(TRUE, "list", NonStr),
      LdObj(TRUE, "emptylist", NoneVal),
      LdObj(TRUE, "dict", AbsPic),
      LdObj(TRUE, "dict", NoneVal),
      LdObj(TRUE, "number", NonStr) }

\* lines 239-246
url_candidate(obj) ==
    IF obj.isDict /\ obj.shape \in {"str", "list", "dict"} THEN obj.val ELSE NoneVal

\* A script: text that json.loads rejects, a dict, a list, or another JSON value.
LdScript(shape, objs) == [shape |-> shape, objs |-> objs]

LdScripts ==
    {LdScript("invalid", <<>>), LdScript("other", <<>>), LdScript("list", <<>>)}
    \cup {LdScript("dict", <<o>>) : o \in LdObjs}
    \cup {LdScript("list", <<LdObj(FALSE, "absent", NoneVal), o>>) :
             o \in {LdObj(TRUE, "str", RelPic), LdObj(TRUE, "list", NonStr),
                    LdObj(TRUE, "dict", NonStr)}}

\* lines 233-237
candidates(script) == IF script.shape \in {"dict", "list"} THEN script.objs ELSE <<>>

\* An img element: its src (the first of src, data-src, data-original), its
\* srcset, its parent's tag, href and class attribute, its own classes, and the
\* class attributes of the elements above its parent.
Srcset(k, first) == [k |-> k, first |-> first]
NoSrcset == Srcset("absent", NoneVal)

ImgTag(src, srcset, ptag, href, pclass, class, aclass) ==
    [src |-> src, srcset |-> srcset, ptag |-> ptag, href |-> href,
     pclass |-> pclass, class |-> class, aclass |-> aclass]

cls_news == <<"n", "e", "w", "s">>
cls_Hero == <<"H", "e", "r", "o">>
cls_hero == <<"h", "e", "r", "o">>
cls_nav == <<"n", "a", "v">>

ImgTags ==
    { ImgTag(RelPic, NoSrcset, "div", NoneVal, cls_nav, {}, cls_news),
      ImgTag(AbsPic, NoSrcset, "a", OtherHref, cls_news, {}, <<>>),
      ImgTag(RelPic, NoSrcset, "a", SameHref, <<>>, {cls_hero}, <<>>),
      ImgTag(NoneVal, Srcset("urls", SetPic), "a", OtherHref, cls_news, {cls_hero}, cls_nav),
      ImgTag(RelPic, Srcset("blank", NoneVal), "div", NoneVal, <<>>, {}, <<>>),
      ImgTag(LogoUrl, Srcset("empty", NoneVal), "div", NoneVal, cls_news, {cls_Hero}, <<>>),
      ImgTag(NoneVal, NoSrcset, "div", NoneVal, <<>>, {}, <<>>),
      ImgTag(AbsPic, NoSrcset, "div", NoneVal, <<>>, {}, <<>>) }

\* ok: driver.get and the wait for <body> went through.
Pages ==
    {[ok |-> FALSE, imgs |-> <<>>]}
    \cup {[ok |-> TRUE, imgs |-> l] : l \in SeqsUpTo(ImgTags, MaxImgs)}

\* The page a followed link leads to: its og:image content and its first img's src.
InnerPage(ok, og, hasImg, src) == [ok |-> ok, og |-> og, hasImg |-> hasImg, src |-> src]

InnerPages ==
    {InnerPage(FALSE, NoneVal, FALSE, NoneVal)}
    \cup {InnerPage(TRUE, og, FALSE, NoneVal) : og \in {NoneVal, AbsPic, AvatarUrl}}
    \cup {InnerPage(TRUE, og, TRUE, src) : og \in {NoneVal, AbsPic, AvatarUrl},
                                          src \in {NoneVal, RelPic, LogoUrl}}

content_keywords == <<<<"a", "r", "t", "i", "c", "l", "e">>, <<"e", "n", "t", "r", "y">>, <<"c", "o", "n", "t", "e", "n", "t">>,
                      <<"p", "o", "s", "t">>, <<"n", "e", "w", "s">>>>
prominence_keywords == <<<<"f", "e", "a", "t", "u", "r", "e", "d">>, <<"m", "a", "i", "n">>, <<"h", "e", "r", "o">>, <<"l", "e", "a", "d">>>>

\* lines 270-275: the parent's class attribute is searched for a substring, the
\* img's own class list for a member.
score(img) ==
    (IF \E i \in DOMAIN content_keywords :
           Contains(Lowered(img.pclass), content_keywords[i])
     THEN ScoreParent ELSE 0)
    + (IF \E i \in DOMAIN prominence_keywords : prominence_keywords[i] \in img.class
       THEN ScoreOwn ELSE 0)

\* lines 258-265: the url an img is read for; srcset, when present, takes over.
HasSource(img) == Truthy(img.src) \/ img.srcset.k \in {"blank", "urls"}
SourceRaises(img) == HasSource(img) /\ img.srcset.k = "blank"   \* [0] of an empty split
Source(img) == IF img.srcset.k = "urls" THEN img.srcset.first ELSE img.src

Candidate(img) ==
    [score |-> score(img), url |-> make_absolute(ArticleUrl, Source(img)), img |-> img]

\* lines 266-268
Survives(img) ==
    /\ HasSource(img)
    /\ Truthy(make_absolute(ArticleUrl, Source(img)))
    /\ ~is_probably_logo(make_absolute(ArticleUrl, Source(img))).logo

RECURSIVE Collect(_)
Collect(imgs) ==
    IF imgs = <<>> THEN <<>>
    ELSE (IF Survives(Head(imgs)) THEN <<Candidate(Head(imgs))>> ELSE <<>>)
         \o Collect(Tail(imgs))

\* line 277: list.sort(key=score, reverse=True) is stable.
RECURSIVE Insert(_, _)
Insert(c, sorted) ==
    IF sorted = <<>> THEN <<c>>
    ELSE IF Head(sorted).score >= c.score THEN <<Head(sorted)>> \o Insert(c, Tail(sorted))
    ELSE <<c>> \o sorted

RECURSIVE SortByScore(_)
SortByScore(cands) ==
    IF cands = <<>> THEN <<>>
    ELSE Insert(cands[Len(cands)], SortByScore(SubSeq(cands, 1, Len(cands) - 1)))

(***************************************************************************)
(* fetch_article_image, step by step.                                      *)
(***************************************************************************)
MaxScripts == 2

meta_props == <<"og:image", "name=twitter:image", "property=twitter:image", "itemprop=image">>

Download(stage, url, resp) ==
    [stage |-> stage, url |-> url, resp |-> resp,
     accepted |-> download_and_validate_image(resp)]

\* `if url_abs and not is_probably_logo(url_abs)`
Eligible(url_abs) == Truthy(url_abs) /\ ~is_probably_logo(url_abs).logo
FilterRaises(url_abs) == Truthy(url_abs) /\ is_probably_logo(url_abs).raised

\* return img / return None
Return(res) ==
    /\ rpc' = "done"
    /\ result' = res

\* lines 319-321: the handler of the whole body.
RaiseIn(stage) ==
    /\ Return("None")
    /\ raisedIn' = stage

\* lines 202-208: driver.get(article_url), the wait, the parse.
FetchPage ==
    /\ rpc = "start"
    /\ fetched' = <<ArticleUrl>>
    /\ IF page.ok
       THEN /\ rpc' = "meta"
            /\ metaIdx' = 1
            /\ UNCHANGED <<result, raisedIn>>
       ELSE RaiseIn("fetch") /\ UNCHANGED metaIdx
    /\ UNCHANGED <<pipeVars, auxVars, page, scriptIdx, ld_candidates, objIdx, img_candidates,
                   candIdx, inner, lastDownload>>

\* MetaTag without the return of line 225: the loop goes on after a valid image.
MetaTagKeepsLooking ==
    /\ rpc = "meta"
    /\ metaIdx <= Len(meta_props)
    /\ \E content \in MetaContents, resp \in Responses :
         LET url_abs == make_absolute(ArticleUrl, content) IN
           IF Truthy(content) /\ Eligible(url_abs)
           THEN lastDownload' = Download("meta", url_abs, resp)
           ELSE UNCHANGED lastDownload
    /\ metaIdx' = metaIdx + 1
    /\ UNCHANGED <<pipeVars, auxVars, rpc, result, page, scriptIdx, ld_candidates, objIdx,
                   img_candidates, candIdx, inner, fetched, raisedIn>>

\* lines 217-225: one entry of meta_props.
MetaTag ==
    /\ rpc = "meta"
    /\ metaIdx <= Len(meta_props)
    /\ \E content \in MetaContents, resp \in Responses :
         LET url_abs == make_absolute(ArticleUrl, content) IN
           IF Truthy(content) /\ Eligible(url_abs)
           THEN /\ lastDownload' = Download("meta", url_abs, resp)
                /\ IF download_and_validate_image(resp)
                   THEN Return("image") /\ UNCHANGED metaIdx
                   ELSE metaIdx' = metaIdx + 1 /\ UNCHANGED <<rpc, result>>
           ELSE /\ metaIdx' = metaIdx + 1
                /\ UNCHANGED <<rpc, result, lastDownload>>
    /\ UNCHANGED <<pipeVars, auxVars, page, scriptIdx, ld_candidates, objIdx, img_candidates,
                   candIdx, inner, fetched, raisedIn>>

\* line 227: the meta loop is over.
MetaDone ==
    /\ rpc = "meta"
    /\ metaIdx > Len(meta_props)
    /\ rpc' = "jsonld"
    /\ UNCHANGED <<pipeVars, auxVars, page, metaIdx, scriptIdx, ld_candidates, objIdx,
                   img_candidates, candIdx, inner, lastDownload, fetched, raisedIn,
                   result>>

\* lines 228-237: the next script is parsed (a script json.loads rejects has no candidates).
NextScript ==
    /\ rpc = "jsonld"
    /\ objIdx >= Len(ld_candidates)
    /\ scriptIdx < MaxScripts
    /\ \E script \in LdScripts :
         ld_candidates' = candidates(script)
    /\ scriptIdx' = scriptIdx + 1
    /\ objIdx' = 0
    /\ UNCHANGED <<pipeVars, auxVars, rpc, page, metaIdx, img_candidates, candIdx, inner,
                   lastDownload, fetched, raisedIn, result>>

\* lines 238-253: one object of the script.
LdCandidate ==
    /\ rpc = "jsonld"
    /\ objIdx < Len(ld_candidates)
    /\ objIdx' = objIdx + 1
    /\ \E resp \in Responses :
         LET url_cand == url_candidate(ld_candidates[objIdx + 1])
             url_abs == make_absolute(ArticleUrl, url_cand)
         IN  IF Truthy(url_cand) /\ FilterRaises(url_abs)
             THEN RaiseIn("jsonld") /\ UNCHANGED lastDownload
             ELSE IF Truthy(url_cand) /\ Eligible(url_abs)
             THEN /\ lastDownload' = Download("jsonld", url_abs, resp)
                  /\ IF download_and_validate_image(resp)
                     THEN Return("image") /\ UNCHANGED raisedIn
                     ELSE UNCHANGED <<rpc, result, raisedIn>>
             ELSE UNCHANGED <<rpc, result, raisedIn, lastDownload>>
    /\ UNCHANGED <<pipeVars, auxVars, page, metaIdx, scriptIdx, ld_candidates, img_candidates,
                   candIdx, inner, fetched>>

\* line 255: there is no further script; the loop's locals are dead from here on.
LdDone ==
    /\ rpc = "jsonld"
    /\ objIdx >= Len(ld_candidates)
    /\ rpc' = "inline"
    /\ scriptIdx' = 0
    /\ ld_candidates' = <<>>
    /\ objIdx' = 0
    /\ UNCHANGED <<pipeVars, auxVars, page, metaIdx, img_candidates, candIdx, inner,
                   lastDownload, fetched, raisedIn, result>>

\* lines 256-277: the candidates are collected, scored and sorted.
InlineCollect ==
    /\ rpc = "inline"
    /\ IF \E i \in DOMAIN page.imgs : SourceRaises(page.imgs[i])
       THEN RaiseIn("inline") /\ UNCHANGED <<img_candidates, candIdx>>
       ELSE /\ img_candidates' = SortByScore(Collect(page.imgs))
            /\ candIdx' = 1
            /\ rpc' = "cands"
            /\ UNCHANGED <<result, raisedIn>>
    /\ UNCHANGED <<pipeVars, auxVars, page, metaIdx, scriptIdx, ld_candidates, objIdx, inner,
                   lastDownload, fetched>>

\* img_candidates[:8]
Tried ==
    SubSeq(img_candidates, 1,
           IF Len(img_candidates) < MaxTried THEN Len(img_candidates) ELSE MaxTried)

cand == img_candidates[candIdx]

href == make_absolute(ArticleUrl, cand.img.href)

\* Follows without the comparison with article_url of line 288.
FollowsAnyLink(c) ==
    /\ c.img.ptag = "a"
    /\ Truthy(c.img.href)
    /\ Truthy(make_absolute(ArticleUrl, c.img.href))

\* lines 285-288
Follows(c) ==
    /\ c.img.ptag = "a"
    /\ Truthy(c.img.href)
    /\ Truthy(make_absolute(ArticleUrl, c.img.href))
    /\ make_absolute(ArticleUrl, c.img.href) # ArticleUrl

\* the next turn of the loop of line 279 (inner_soup is dead from here on)
NextCandidate ==
    /\ rpc' = "cands"
    /\ candIdx' = candIdx + 1
    /\ inner' = NoInner

\* lines 279-288: one candidate of the page.
TryCandidate ==
    /\ rpc = "cands"
    /\ candIdx <= Len(Tried)
    /\ \E resp \in Responses :
         /\ lastDownload' = Download("inline", cand.url, resp)
         /\ IF download_and_validate_image(resp)
            THEN Return("image") /\ UNCHANGED <<candIdx, inner>>
            ELSE /\ UNCHANGED result
                 /\ IF Follows(cand)
                    THEN rpc' = "follow" /\ UNCHANGED <<candIdx, inner>>
                    ELSE NextCandidate
    /\ UNCHANGED <<pipeVars, auxVars, page, metaIdx, scriptIdx, ld_candidates, objIdx,
                   img_candidates, fetched, raisedIn>>

\* lines 289-294 and 313-314: the link is followed; an exception is passed over.
FollowLink ==
    /\ rpc = "follow"
    /\ fetched' = Append(fetched, href)
    /\ \E ip \in InnerPages :
         IF ip.ok
         THEN /\ inner' = ip
              /\ rpc' = "follow_og"
              /\ UNCHANGED candIdx
         ELSE NextCandidate
    /\ UNCHANGED <<pipeVars, auxVars, page, metaIdx, scriptIdx, ld_candidates, objIdx,
                   img_candidates, lastDownload, raisedIn, result>>

\* lines 296-303: the followed page's og:image.
FollowOg ==
    /\ rpc = "follow_og"
    /\ \E resp \in Responses :
         LET c == make_absolute(href, inner.og) IN
           IF Truthy(inner.og) /\ Eligible(c)
           THEN /\ lastDownload' = Download("follow_og", c, resp)
                /\ IF download_and_validate_image(resp)
                   THEN Return("image")
                   ELSE rpc' = "follow_img" /\ UNCHANGED result
           ELSE /\ rpc' = "follow_img"
                /\ UNCHANGED <<result, lastDownload>>
    /\ UNCHANGED <<pipeVars, auxVars, page, metaIdx, scriptIdx, ld_candidates, objIdx,
                   img_candidates, candIdx, inner, fetched, raisedIn>>

\* lines 305-312: the followed page's first img.
FollowImg ==
    /\ rpc = "follow_img"
    /\ \E resp \in Responses :
         LET c == make_absolute(href, inner.src) IN
           IF inner.hasImg /\ Eligible(c)
           THEN /\ lastDownload' = Download("follow_img", c, resp)
                /\ IF download_and_validate_image(resp)
                   THEN Return("image") /\ UNCHANGED <<candIdx, inner>>
                   ELSE NextCandidate /\ UNCHANGED result
           ELSE /\ NextCandidate
                /\ UNCHANGED <<result, lastDownload>>
    /\ UNCHANGED <<pipeVars, auxVars, page, metaIdx, scriptIdx, ld_candidates, objIdx,
                   img_candidates, fetched, raisedIn>>

\* lines 316-317: nothing was found.
NoImage ==
    /\ rpc = "cands"
    /\ candIdx > Len(Tried)
    /\ Return("None")
    /\ UNCHANGED <<pipeVars, auxVars, page, metaIdx, scriptIdx, ld_candidates, objIdx,
                   img_candidates, candIdx, inner, lastDownload, fetched, raisedIn>>

InitResolver ==
    /\ pc = "resolver"
    /\ posted_links = {}
    /\ dedupFile = File("missing", <<>>)
    /\ news_articles = <<>>
    /\ idx = 0
    /\ image_data = "unset"
    /\ success = FALSE
    /\ loaded = {}
    /\ sentOk = {}
    /\ failedSend = {}
    /\ failedCard = {}
    /\ calls = <<>>
    /\ rpc = "start"
    /\ page \in Pages
    /\ metaIdx = 0
    /\ scriptIdx = 0
    /\ ld_candidates = <<>>
    /\ objIdx = 0
    /\ img_candidates = <<>>
    /\ candIdx = 0
    /\ inner = NoInner
    /\ lastDownload = NoDownload
    /\ fetched = <<>>
    /\ raisedIn = "none"
    /\ result = "unset"
    /\ AuxIdle

NextResolver ==
    \/ FetchPage
    \/ MetaTag
    \/ MetaDone
    \/ NextScript
    \/ LdCandidate
    \/ LdDone
    \/ InlineCollect
    \/ TryCandidate
    \/ FollowLink
    \/ FollowOg
    \/ FollowImg
    \/ NoImage

SpecResolver == InitResolver /\ [][NextResolver]_vars

(***************************************************************************)
(* Properties of the poll loop (checked under Spec).                       *)
(***************************************************************************)

\* C1: an article whose link is in posted_links when the loop reaches it is
\* passed over: no call of create_professional_news_card or
\* send_telegram_photo_sync is made for it, and every such call that is made is
\* for a link that is not in posted_links at that moment.
C1_PostedIsSkipped ==
    [][ /\ (AtArticle /\ link \in posted_links)
            => (calls' = calls /\ pc' = "loop" /\ idx' = idx + 1)
        /\ (Len(calls') > Len(calls))
            => calls'[Len(calls')].link \notin posted_links ]_vars

\* C1, witness: the same link twice in one cycle: posted at its first place,
\* passed over at its second (one compose and one send were made in the cycle).
C1_Witness ==
    /\ pc = "loop"
    /\ Len(news_articles) = 2
    /\ idx = 3
    /\ news_articles[1] = news_articles[2]
    /\ news_articles[1] \in posted_links \ loaded
    /\ calls = <<Call("compose", news_articles[1]), Call("send", news_articles[1])>>

\* C2: after send_telegram_photo_sync returned False the link is not added:
\* posted_links and the dedup file stay as they are while the article is handled,
\* a link whose last send failed is not in posted_links, and the next time the
\* loop reaches it the card is composed again.
C2_FailedSendIsRetried ==
    /\ [](failedSend \cap posted_links = {})
    /\ [][ /\ (pc = "composed" /\ pc' = "sent" /\ ~success')
               => (posted_links' = posted_links /\ dedupFile' = dedupFile)
           /\ (pc = "sent" /\ ~success)
               => (/\ posted_links' = posted_links
                   /\ dedupFile' = dedupFile
                   /\ pc' = "loop" /\ idx' = idx + 1)
           /\ (AtArticle /\ link \in failedSend)
               => (pc' = "compose" /\ calls' = Append(calls, Call("compose", link))) ]_vars

\* C2, witness: a card is about to be sent for a link whose last send failed.
C2_Witness ==
    /\ pc = "composed"
    /\ image_data = "card"
    /\ link \in failedSend

\* C3: every url in posted_links was loaded at startup or was sent with success
\* in this run; posted_links changes only at startup and right after a successful
\* send of the link that is added; no url is ever removed.
C3_PostedWasPublished ==
    /\ [](posted_links \subseteq loaded \cup sentOk)
    /\ [][ /\ posted_links \subseteq posted_links'
           /\ (posted_links' # posted_links)
               => \/ pc = "start"
                  \/ /\ pc = "sent" /\ success
                     /\ calls[Len(calls)] = Call("send", link)
                     /\ posted_links' = posted_links \cup {link} ]_vars

\* C3, witness: a link was just added to a set that also holds loaded links.
C3_Witness ==
    /\ pc = "debug"
    /\ loaded # {}
    /\ link \in posted_links \ loaded

\* C4: create_professional_news_card never raises; when it returns None the
\* publisher is not called, the link is not added, the loop goes on with the next
\* article, and the next time the loop reaches the link the card is composed again.
C4_NoCardIsSkipped ==
    /\ [](image_data # "raised")
    /\ [](failedCard \cap posted_links = {})
    /\ [][ /\ (pc = "composed" /\ image_data = "None")
               => (/\ calls' = calls
                   /\ posted_links' = posted_links
                   /\ dedupFile' = dedupFile
                   /\ pc' = "loop" /\ idx' = idx + 1)
           /\ (AtArticle /\ link \in failedCard)
               => (pc' = "compose" /\ calls' = Append(calls, Call("compose", link))) ]_vars

\* C4, witness: the first article's card came back None and the second article
\* of the cycle is being composed.
C4_Witness ==
    /\ pc = "compose"
    /\ idx = 2
    /\ news_articles[1] # news_articles[2]
    /\ news_articles[1] \in failedCard
    /\ calls = <<Call("compose", news_articles[1]), Call("compose", news_articles[2])>>

\* C10: whenever the dedup file is missing or is anything but a JSON array of
\* strings, load_posted_links returns without raising and posted_links is empty.
C10_LoadNeverRaises ==
    (pc \in {"loaded", "crashed"} /\ ~IsArrayOfStrings(dedupFile))
        => (pc = "loaded" /\ posted_links = {})

(***************************************************************************)
(* Properties of fetch_article_image (checked under SpecResolver).         *)
(***************************************************************************)
StageRank(s) ==
    CASE s \in {"idle", "start"} -> 0
      [] s = "meta" -> 1
      [] s = "jsonld" -> 2
      [] s \in {"inline", "cands", "follow", "follow_og", "follow_img"} -> 3
      [] s = "done" -> 4

DownloadRank(s) ==
    CASE s = "none" -> 0
      [] s = "meta" -> 1
      [] s = "jsonld" -> 2
      [] s \in {"inline", "follow_og", "follow_img"} -> 3

\* C5: the stages run in the order meta, JSON-LD, inline; no candidate of a later
\* stage is downloaded while an earlier stage runs; the first download the
\* validator accepts ends the resolver and is the image returned; a stage is left
\* for the next one only when its candidates are used up.
C5_StageOrder ==
    /\ [](DownloadRank(lastDownload.stage) <= StageRank(rpc))
    /\ [](lastDownload.accepted => (rpc = "done" /\ result = "image"))
    /\ [](result = "image" => lastDownload.accepted)
    /\ [][ /\ StageRank(rpc') >= StageRank(rpc)
           /\ (StageRank(rpc') > StageRank(rpc) + 1) => rpc' = "done"
           /\ (rpc = "meta" /\ rpc' = "jsonld") => metaIdx > Len(meta_props)
           /\ (rpc = "jsonld" /\ rpc' = "inline") => objIdx >= Len(ld_candidates) ]_vars

\* C5, witness: the og:image was accepted and returned on a page that holds an
\* inline candidate of the highest score.
C5_Witness ==
    /\ rpc = "done"
    /\ result = "image"
    /\ lastDownload.stage = "meta"
    /\ metaIdx = 1
    /\ \E i \in DOMAIN page.imgs :
         Survives(page.imgs[i]) /\ score(page.imgs[i]) = ScoreParent + ScoreOwn

\* C6: an exception in one stage only ends that stage: when the page was fetched
\* and holds inline candidates, the resolver returns None only after the inline
\* stage, the last one, was entered and its candidates were used up.
C6_StageExceptionsContained ==
    (rpc = "done" /\ result = "None" /\ page.ok /\ Collect(page.imgs) # <<>>)
        => \/ raisedIn = "inline"
           \/ raisedIn = "none" /\ candIdx > Len(Tried)

HopsSoFar == Len(fetched) - 1

\* C7: a candidate of the page whose validation fails and whose parent is a link
\* to another url has exactly that url fetched; the followed page's og:image, else
\* its first img, is returned if it validates; otherwise the next candidate of the
\* page is tried.  Every page fetched besides the article is the link of a tried
\* candidate of the article's page, at most one for each.
C7_OneHop ==
    /\ [](fetched # <<>> => fetched[1] = ArticleUrl)
    /\ [](\A i \in 2..Len(fetched) :
             \E j \in 1..Len(Tried) :
                /\ j <= candIdx
                /\ Tried[j].img.ptag = "a"
                /\ fetched[i] = make_absolute(ArticleUrl, Tried[j].img.href)
                /\ fetched[i] # ArticleUrl)
    /\ [](HopsSoFar <= (IF rpc \in {"cands", "follow"} THEN candIdx - 1 ELSE candIdx))
    /\ [][ /\ (fetched' # fetched) => rpc \in {"start", "follow"}
           /\ (rpc = "cands" /\ candIdx <= Len(Tried))
               => /\ lastDownload'.stage = "inline"
                  /\ lastDownload'.url = cand.url
                  /\ IF lastDownload'.accepted
                     THEN rpc' = "done" /\ result' = "image"
                     ELSE IF cand.img.ptag = "a" /\ Truthy(cand.img.href) /\ href # ArticleUrl
                     THEN rpc' = "follow" /\ candIdx' = candIdx
                     ELSE rpc' = "cands" /\ candIdx' = candIdx + 1
           /\ (rpc = "follow")
               => /\ fetched' = Append(fetched, href)
                  /\ \/ rpc' = "follow_og" /\ candIdx' = candIdx
                     \/ rpc' = "cands" /\ candIdx' = candIdx + 1
           /\ (rpc = "follow_og")
               => \/ /\ rpc' = "done" /\ result' = "image"
                     /\ lastDownload'.stage = "follow_og"
                     /\ lastDownload'.url = make_absolute(href, inner.og)
                  \/ rpc' = "follow_img" /\ candIdx' = candIdx
           /\ (rpc = "follow_img")
               => \/ /\ rpc' = "done" /\ result' = "image"
                     /\ lastDownload'.stage = "follow_img"
                     /\ lastDownload'.url = make_absolute(href, inner.src)
                  \/ rpc' = "cands" /\ candIdx' = candIdx + 1 ]_vars

\* C7, witness: the first candidate failed, its link was followed, the followed
\* page's first img failed too, and the second candidate is up: one page fetched
\* besides the article.
C7_Witness ==
    /\ rpc = "cands"
    /\ candIdx = 2
    /\ Len(Tried) = 2
    /\ HopsSoFar = 1
    /\ lastDownload.stage = "follow_img"
    /\ ~lastDownload.accepted

MeetsFloor(r) ==
    ~r.err /\ r.status = 200 /\ r.decodable /\ r.w >= 400 /\ r.h >= 250

\* C8: a download is accepted exactly when the request succeeded with status 200,
\* the body decoded as an image and the image is at least 400 wide and 250 high;
\* the image returned, from whatever stage, is such a download.
C8_ValidatorFloor ==
    /\ lastDownload.stage # "none" => (lastDownload.accepted <=> MeetsFloor(lastDownload.resp))
    /\ result = "image" => (lastDownload.stage # "none" /\ MeetsFloor(lastDownload.resp))

\* C8, witness: an image of exactly 400 x 250 was returned from the first img of a
\* followed page.
C8_Witness ==
    /\ result = "image"
    /\ lastDownload.stage = "follow_img"
    /\ lastDownload.resp.w = 400
    /\ lastDownload.resp.h = 250

LogoWords == <<<<"l", "o", "g", "o">>, <<"f", "a", "v", "i", "c", "o", "n">>, <<"s", "p", "r", "i", "t", "e">>,
               <<"p", "l", "a", "c", "e", "h", "o", "l", "d", "e", "r">>,
               <<"d", "e", "f", "a", "u", "l", "t">>, <<"a", "v", "a", "t", "a", "r">>>>

LogoLike(s) == \E i \in DOMAIN LogoWords : Contains(Lowered(s), LogoWords[i])

\* C9: no url handed to the validator, in any stage, is absent or contains, in
\* any letter case, logo, favicon, sprite, placeholder, default or avatar.
C9_LogoNeverDownloaded ==
    lastDownload.stage # "none"
        => /\ lastDownload.url.k = "str"
           /\ lastDownload.url.s # <<>>
           /\ ~LogoLike(lastDownload.url.s)

\* C9, witness: the followed page's og:image is .../Avatar and was passed over
\* without a download.
C9_Witness ==
    /\ rpc = "follow_img"
    /\ LogoLike(inner.og.s)
    /\ lastDownload.stage = "inline"

(***************************************************************************)
(* Properties of the dedup file across runs (checked under SpecRoundTrip). *)
(***************************************************************************)

\* C11: after a successful save_posted_links, load_posted_links in a fresh
\* process does not raise and builds exactly the set that was saved, whatever
\* order the links were added in, whatever order the array lists them in and
\* whatever the file held before the save.
C11_SaveLoadRoundTrip ==
    (pc \in {"loaded", "crashed"} /\ saved.ok)
        => (pc = "loaded" /\ posted_links = saved.links)

\* a file that listed both links was rewritten with one of them, and only that
\* one came back
C11_Witness ==
    /\ pc = "loaded"
    /\ saved.ok
    /\ Cardinality(saved.links) = 1
    /\ posted_links = saved.links
    /\ dedupFile.kind = "array"
    /\ Len(dedupFile.items) = 1

(***************************************************************************)
(* Properties of the title wrapping (checked under SpecWrap).              *)
(***************************************************************************)
RECURSIVE JoinWords(_)
JoinWords(ws) ==
    IF Len(ws) = 1 THEN ws[1] ELSE ws[1] \o <<" ">> \o JoinWords(Tail(ws))

\* The number of lines the title takes when lines are filled greedily and
\* nothing limits their number; cur is the width of the line being filled.
RECURSIVE LinesNeeded(_, _, _)
LinesNeeded(ws, cur, col) ==
    IF ws = <<>> THEN (IF cur > 0 THEN 1 ELSE 0)
    ELSE LET w == textwidth(Head(ws)) IN
           IF cur = 0
           THEN (IF w <= col THEN LinesNeeded(Tail(ws), w, col)
                 ELSE 1 + LinesNeeded(Tail(ws), 0, col))
           ELSE (IF cur + 1 + w <= col THEN LinesNeeded(Tail(ws), cur + 1 + w, col)
                 ELSE 1 + LinesNeeded(ws, 0, col))

IsPrefix(a, b) == Len(a) <= Len(b) /\ SubSeq(b, 1, Len(a)) = a

RECURSIVE TokenEnd(_, _)
TokenEnd(s, i) ==
    IF i < Len(s) /\ WordChar(s[i + 1]) THEN TokenEnd(s, i + 1) ELSE i

Masked(token) ==
    IF \E n \in DOMAIN replacements : replacements[n][1] = Lowered(token)
    THEN replacements[CHOOSE n \in DOMAIN replacements :
                         replacements[n][1] = Lowered(token)][2]
    ELSE token

\* the text with every token that is a vocabulary word, in any case, masked
RECURSIVE MaskTokens(_, _)
MaskTokens(s, i) ==
    IF i > Len(s) THEN <<>>
    ELSE IF WordChar(s[i])
    THEN Masked(SubSeq(s, i, TokenEnd(s, i))) \o MaskTokens(s, TokenEnd(s, i) + 1)
    ELSE <<s[i]>> \o MaskTokens(s, i + 1)

\* C13: sanitize_text returns None and "" unchanged; in any other text every
\* vocabulary word that stands as a token of its own, in any letter case, is
\* replaced by its masked spelling, and everything else (a vocabulary word
\* inside a longer token included) is left as it was.
C13_SanitizeWholeWords ==
    pc = "sanitized" =>
        /\ (text.k = "none" \/ text.s = <<>>) => sanitized = text
        /\ text.k = "str" => (sanitized.k = "str" /\ sanitized.s = MaskTokens(text.s, 1))

\* "KiLL skill": the first word is masked, the second is left alone
C13_Witness ==
    /\ pc = "sanitized"
    /\ text.s = <<"K", "i", "L", "L", " ", "s", "k", "i", "l", "l">>
    /\ sanitized.s = <<"K", "i", "*", "l", "l", " ", "s", "k", "i", "l", "l">>

(***************************************************************************)
(* Properties of the browser sessions (checked under SpecSession).         *)
(***************************************************************************)

\* C14: whenever fetch_article_image or get_latest_news has left, by return or
\* with an exception, no browser session it started is open and no scratch
\* profile directory it created is on disk.
C14_ResourcesReleased ==
    pc \in {"left", "idle"} => (openSessions = 0 /\ scratchDirs = 0)

(***************************************************************************)
(* Properties of the shutdown (checked under SpecSignal).                  *)
(***************************************************************************)

\* C15: when SIGINT is delivered, at any point of the run, save_posted_links
\* runs on the current posted_links and the process exits; when the write
\* succeeded, the dedup file then lists every link of posted_links.
C15_SignalFlushesAndExits ==
    [][ signals' > signals
          => /\ pc' = "exited"
             /\ saved'.links = posted_links
             /\ saved'.ok => /\ dedupFile'.kind = "array"
                             /\ posted_links = {dedupFile'.items[i].text :
                                                   i \in DOMAIN dedupFile'.items} ]_vars

(***************************************************************************)
(* Properties of the poll loop under exceptions (checked under SpecLive).  *)
(***************************************************************************)

\* C16: an exception that reaches main's loop is caught there, the cooldown
\* follows and then another cycle starts; an exception raised while one article
\* is processed is caught in the for loop, which goes on with the next article,
\* so the articles of the cycle are all gone through; once the poll loop runs,
\* the process ends only on SIGINT.
C16_LoopSurvivesExceptions ==
    /\ [][(caught' > caught) =>
              ( (pc = "cycle" /\ pc' = "cooldown")
                \/ (pc \in InTry /\ pc' = "loop" /\ idx' = idx + 1
                      /\ news_articles' = news_articles) )]_vars
    /\ [](pc # "crashed")
    /\ [][(pc' = "exited") => (signals' > signals \/ pc = "exited")]_vars
    /\ (pc = "cooldown") ~> (pc \in {"cycle", "exited"})
    /\ (pc \in InTry) ~> (pc \in {"sleep", "exited"})

\* the first article raised and the second one is being composed
C16_Witness ==
    /\ caught = 1
    /\ pc = "compose"
    /\ idx = 2
    /\ calls[Len(calls)] = Call("compose", link)
    /\ signals = 0

(***************************************************************************)
(* Properties of the inline-image stage (checked under SpecResolver).      *)
(***************************************************************************)
\* the score of an img as the inline stage is described: 2 for a content
\* keyword in the class of the parent or of an element above it, plus 3 for a
\* prominence keyword among the img's own classes
DescribedScore(img) ==
    (IF \E i \in DOMAIN content_keywords :
           \/ Contains(Lowered(img.pclass), content_keywords[i])
           \/ Contains(Lowered(img.aclass), content_keywords[i])
     THEN 2 ELSE 0)
    + (IF \E i \in DOMAIN prominence_keywords : prominence_keywords[i] \in img.class
       THEN 3 ELSE 0)

\* C17: the inline candidates are tried in descending order of that score (the
\* parent's or any ancestor's class counting for the +2), and at most the
\* first 8 of them are tried.
C17_InlineOrder ==
    rpc \in {"cands", "follow", "follow_og", "follow_img"} =>
        /\ \A i, j \in DOMAIN img_candidates :
               i < j => DescribedScore(img_candidates[i].img)
                          >= DescribedScore(img_candidates[j].img)
        /\ candIdx <= 9

\* The places of the loop body that follow the composition of the current article.
Composed == {"composed", "sent", "debug", "save", "pace"}

\* C18: when fetch_article_image returns None and nothing else fails, the
\* card is still returned, its top area filled with the placeholder colour,
\* the label and the border; the orchestrator then publishes that card and,
\* when the publication succeeds, marks the link as posted.
C18_PlaceholderCard ==
    /\ [](  (pc = "composed" /\ card.article_image_data = "None" /\ card.fault = "none")
          => (image_data = "card" /\ card.top = Placeholder) )
    /\ [][ (pc = "composed" /\ image_data = "card" /\ card.top = Placeholder)
           => (caught' > caught
               \/ (pc' = "sent" /\ calls' = Append(calls, Call("send", link)))) ]_vars
    /\ [][ (pc = "sent" /\ success /\ card.top = Placeholder)
           => (caught' > caught \/ posted_links' = posted_links \cup {link}) ]_vars

C18_Witness ==
    /\ pc = "debug"
    /\ card.article_image_data = "None"
    /\ card.top = Placeholder
    /\ image_data = "card"
    /\ success
    /\ link \in posted_links
    /\ calls[Len(calls)] = Call("send", link)

\* C19: when the processing of a fetched image raises at any step and
\* nothing else fails, the fallback placeholder (fill and label) is drawn
\* and the card is still returned.
C19_FallbackCard ==
    (pc \in Composed /\ card.article_image_data = "image" /\ card.step # "none"
        /\ card.fault = "none")
    => (image_data = "card" /\ card.top.fill = "placeholder" /\ card.top.label)

====
